---- MODULE Spec2Model ----
(***************************************************************************)
(* Model of bot.py (TG-Bot-Pocket-Consultant): the per-user conversation   *)
(* state kept in context.user_data, the daily quota table user_limits and  *)
(* its pickle snapshot, the update dispatcher of the Application built in  *)
(* main(), the handlers start / button_handler / handle_message /          *)
(* handle_document, and the keep_typing task each flow starts around its   *)
(* remote call.                                                            *)
(*                                                                         *)
(* One event-loop step of the program is one action.  A handler that is    *)
(* suspended at an await is a record in `handlers` whose pc names the      *)
(* await; the keep_typing task may run only while the loop is free.        *)
(***************************************************************************)
EXTENDS Integers, Sequences, FiniteSets, TLC

\* ------------------------------------------------------------------ bounds
\* Days the clock may advance through (datetime.now().date() is 0..MaxDay).
MaxDay == 1
\* Updates received in one run of the process.
MaxUpdates == 3
\* Updates waiting in the Application's update queue.
MaxQueue == 1
\* Longest time a download or remote call stays outstanding, in time units.
MaxCallTime == 4
\* Handler tasks that can exist at once (only one is used unless
\* concurrent_updates is set).
MaxTasks == 2

\* Longest text given to markdown_to_html, in characters.
MaxTextLen == 4
\* Longest reply text, in parts of ChunkSize characters.
MaxParts == 4

\* --------------------------------------------------------- program constants
DAILY_QUESTION_LIMIT == 10
DAILY_DOCUMENT_LIMIT == 10
\* asyncio.sleep(4) in keep_typing
KeepTypingInterval == 4
\* document.file_size > 20 * 1024 * 1024
MaxFileSize == 20 * 1024 * 1024
\* len(document_text.strip()) < 10
MinTextLen == 10

Users == {"u1", "u2"}
Tasks == 1..MaxTasks

\* callback_data of the inline buttons, and the other update kinds
MenuSelections == {"ask_question", "analyze_document", "create_document"}
ButtonData == MenuSelections \cup {"help", "back_to_main"}
UpdateKinds == ButtonData \cup {"start", "text", "document"}

\* document.file_size and document.file_name's extension of an upload
FileSizes == {MaxFileSize, MaxFileSize + 1}
FileExtensions == {".txt", ".PDF", ".exe"}
\* ask_chatgpt(prompt, document_text[:8000])
MaxDocumentChars == 8000
\* Longest text of a Telegram message (the limit bot.py's chunking cites).
MaxMessageText == 4096
\* if len(final_answer) > 4000, final_answer[i:i+4000]
ChunkSize == 4000
\* AsyncOpenAI(base_url=..., api_key=...): max_retries is not given, so the
\* client repeats a request that failed by a connection error, a timeout or
\* a 408/409/429/5xx status this many times before it raises.
max_retries == 2

\* What extract_text_from_file returns, by its length before and after
\* strip(): nothing, 9 characters among whitespace, exactly 10, one more
\* than 8000.
ExtractedTexts ==
    {[len |-> 0, stripped |-> 0],
     [len |-> MinTextLen + 2, stripped |-> MinTextLen - 1],
     [len |-> MinTextLen, stripped |-> MinTextLen],
     [len |-> MaxDocumentChars + 1, stripped |-> MaxDocumentChars + 1]}
\* len(update.message.text) of a text message
MessageLens == {MaxMessageText}

\* The snapshot user_limits.pkl an earlier run of the process left behind: one
\* user one step below both daily limits, the other never seen.
LoadedSnapshot ==
    "u1" :> [questions_count |-> DAILY_QUESTION_LIMIT - 1,
             documents_count |-> DAILY_DOCUMENT_LIMIT - 1,
             last_reset |-> 0]

VARIABLES
    today,          \* datetime.now().date()
    user_data,      \* context.user_data of each user
    user_limits,    \* the module-level dict user_id -> UserLimits
    pkl,            \* the contents of user_limits.pkl
    update_queue,   \* users whose updates wait to be processed, oldest first
    nUpdates,       \* updates received so far
    handlers,       \* the handler task of each slot
    text,               \* the text markdown_to_html is given
    formatted_response, \* markdown_to_html(text), once it was applied
    formatted_twice,    \* markdown_to_html(formatted_response), once applied
    applications,       \* applications of markdown_to_html so far
    renderer,           \* the handler that sends a reply text, "none" before
    final_answer,       \* the reply text: final_answer / final_response
    parts,              \* the texts the handler is to pass to reply_text
    sent                \* the texts passed to reply_text so far, in order

\* The variables of the formatting of one text.
formatting == <<text, formatted_response, formatted_twice, applications>>

\* The variables of the sending of one reply text.
sending == <<renderer, final_answer, parts, sent>>

vars == <<today, user_data, user_limits, pkl, update_queue, nUpdates, handlers,
          formatting, sending>>

\* ------------------------------------------------------------- UserLimits
\* UserLimits.__init__
NewUserLimits(d) ==
    [questions_count |-> 0, documents_count |-> 0, last_reset |-> d]

reset_if_needed(l, d) ==
    IF d > l.last_reset
    THEN [questions_count |-> 0, documents_count |-> 0, last_reset |-> d]
    ELSE l

can_ask_question_off_by_one(l, d) ==
    reset_if_needed(l, d).questions_count <= DAILY_QUESTION_LIMIT

\* The value can_ask_question returns; its reset is applied by Gate.
can_ask_question(l, d) ==
    reset_if_needed(l, d).questions_count < DAILY_QUESTION_LIMIT

can_process_document_off_by_one(l, d) ==
    reset_if_needed(l, d).documents_count <= DAILY_DOCUMENT_LIMIT

can_process_document(l, d) ==
    reset_if_needed(l, d).documents_count < DAILY_DOCUMENT_LIMIT

increment_questions_no_rollover(l, d) ==
    [l EXCEPT !.questions_count = @ + 1]

increment_questions(l, d) ==
    [reset_if_needed(l, d) EXCEPT !.questions_count = @ + 1]

increment_documents(l, d) ==
    [reset_if_needed(l, d) EXCEPT !.documents_count = @ + 1]

\* The steps of increment_questions() / increment_documents() followed by
\* save_user_limits(): "reset" when reset_if_needed finds an earlier day.
IncrementSteps(l, d) ==
    IF d > l.last_reset THEN <<"reset", "increment", "save">>
    ELSE <<"increment", "save">>

\* get_user_limits: the table after the lazy creation of u's record.
get_user_limits(tbl, u, d) ==
    IF u \in DOMAIN tbl THEN tbl ELSE (u :> NewUserLimits(d)) @@ tbl

Gate_resets_every_record(tbl, u, d) ==
    LET t1 == get_user_limits(tbl, u, d)
    IN  [v \in DOMAIN t1 |-> reset_if_needed(t1[v], d)]

\* A gate that counted the attempt it is asked about.
Gate_charging_the_attempt(tbl, u, d) ==
    LET t1 == get_user_limits(tbl, u, d)
    IN  [t1 EXCEPT ![u] = increment_documents(@, d)]

\* The table after get_user_limits(u) followed by can_ask_question() or
\* can_process_document(): both run reset_if_needed on u's record.
Gate(tbl, u, d) ==
    LET t1 == get_user_limits(tbl, u, d)
    IN  [t1 EXCEPT ![u] = reset_if_needed(@, d)]

\* ------------------------------------------------------------- user_data
EmptyUserData == [waiting_for |-> "none", create_instructions |-> "none"]

\* The mode each menu button stores in user_data['waiting_for'].
waiting_for_copy_paste(data) ==
    CASE data = "ask_question" -> "question"
      [] data = "analyze_document" -> "analyze_document"
      [] data = "create_document" -> "analyze_document"

waiting_for_of(data) ==
    CASE data = "ask_question" -> "question"
      [] data = "analyze_document" -> "analyze_document"
      [] data = "create_document" -> "create_instructions"

PromptOf(data) ==
    CASE data = "ask_question" -> "prompt_question"
      [] data = "analyze_document" -> "prompt_analyze"
      [] data = "create_document" -> "prompt_create"

clear_mode_only(ud) == [ud EXCEPT !.waiting_for = "none"]

\* context.user_data.clear()
clear(ud) == EmptyUserData

reject_and_clear(ud) == EmptyUserData

\* A rejection branch (quota, size, extension, short text) replies and
\* returns, or raises: none of them touches context.user_data.
on_rejection(ud) == ud

\* context.user_data['create_instructions'] = message_text
store_instructions(ud) ==
    [ud EXCEPT !.create_instructions = "text"]

\* ------------------------------------------------------------ handler tasks
\* Messages the handlers send to the chat.
MsgKinds ==
    {"welcome", "prompt_question", "prompt_analyze", "prompt_create", "help",
     "main_menu", "quota_notice", "use_menu", "too_big", "bad_format",
     "placeholder", "answer", "analysis", "document_file", "error_notice",
     "next_action"}

\* pc values at which the handler is finished / has not finished.
Finished == {"idle", "done", "raised"}
\* The handler is suspended at an await: the event loop is free.
Suspended == {"download", "remote", "delete"}
\* The handler runs synchronous code: nothing else runs on the loop.
Blocking == {"sync_call", "stop", "render"}

\* keep_typing's task: not created, created and not yet run, suspended in
\* asyncio.sleep, ended by cancellation, ended by an exception of
\* send_chat_action.
TypingLive == {"created", "sleeping"}
TypingTerminated == {"cancelled", "failed"}

IdleHandler ==
    [pc |-> "idle", user |-> "u1", update |-> "start", flow |-> "none",
     before |-> EmptyUserData, failure |-> "none", raised |-> FALSE,
     typing_task |-> "none", emitted |-> 0, wake |-> 0, elapsed |-> 0,
     response |-> "unset", waiting_message |-> "none", trace |-> <<>>,
     message_text |-> 0, document_text |-> 0, document_content |-> 0,
     retried |-> FALSE,
     file_size |-> 0, file_name |-> "none", file_extension |-> "none"]

InFlight(h) == h.pc \notin Finished
LoopBlocked == \E t \in Tasks : handlers[t].pc \in Blocking

\* The keep_typing task is ready to run its next send_chat_action.
TaskReady(h) == h.typing_task \in TypingLive /\ h.elapsed >= h.wake

Sent(h) == SelectSeq(h.trace, LAMBDA s : s \in MsgKinds)
Has(h, step) == \E i \in 1..Len(h.trace) : h.trace[i] = step
Count(h, step) == Cardinality({i \in 1..Len(h.trace) : h.trace[i] = step})
\* Position of the first occurrence of a step in the trace, 0 when absent.
Pos(h, step) ==
    IF Has(h, step)
    THEN CHOOSE i \in 1..Len(h.trace) :
            h.trace[i] = step /\ \A j \in 1..(i - 1) : h.trace[j] # step
    ELSE 0

\* file_extension = os.path.splitext(document.file_name)[1].lower()
\* str.lower() on the extensions of FileExtensions
Lower_as_written(ext) == ext
Lower(ext) == IF ext = ".PDF" THEN ".pdf" ELSE ext
allowed_extensions == {".txt", ".docx", ".pdf"}

\* ------------------------------------------------------------- dispatcher
concurrent_updates_enabled == TRUE

\* Application.builder().token(...).build(): concurrent_updates is not set,
\* so the Application awaits each update's handler before it takes the next.
concurrent_updates == FALSE

FreeSlots == {t \in Tasks : ~InFlight(handlers[t])}
FreeSlot == CHOOSE t \in FreeSlots : \A s \in FreeSlots : t <= s

CanDispatch ==
    /\ update_queue # <<>>
    /\ ~LoopBlocked
    /\ FreeSlots # {}
    /\ concurrent_updates \/ FreeSlots = Tasks

\* A handler that has run to its end in one step, having sent msgs.
Finish(u, kind, steps, fail) ==
    [IdleHandler EXCEPT !.pc = "done", !.user = u, !.update = kind,
                        !.before = user_data[u], !.failure = fail,
                        !.trace = steps]

\* A flow handler up to its first await after asyncio.create_task.
Begin(u, kind, flow, pc, steps) ==
    [IdleHandler EXCEPT !.pc = pc, !.user = u, !.update = kind, !.flow = flow,
                        !.before = user_data[u], !.typing_task = "created",
                        !.waiting_message = "shown", !.trace = steps]

\* -------------------------------------------------------- markdown_to_html
\* A text is a sequence of characters.  Chars are the characters of the
\* texts given to markdown_to_html; the tags it writes are one element each
\* (no pattern of the function matches inside a tag or across its border,
\* and Chars has none of the characters of a tag).  "backtick" is the
\* character U+0060, which a TLA+ string cannot hold.
Chars == {"#", "*", "backtick", "[", "]", "1", " ", "\n"}
Texts == UNION {[1..n -> Chars] : n \in 0..MaxTextLen}

\* \s, and the characters `.` does not match
Whitespace == {" ", "\t", "\n", "\r"}
LineEnd == {"\n"}

\* The sequence d stands at position i of s.
At(s, i, d) == i + Len(d) - 1 <= Len(s) /\ SubSeq(s, i, i + Len(d) - 1) = d

\* The first position from a on whose character is in S / is not in S;
\* Len(s) + 1 when there is none.
FirstIn(s, a, S) ==
    LET K == {k \in a..Len(s) : s[k] \in S}
    IN  IF K = {} THEN Len(s) + 1 ELSE CHOOSE k \in K : \A j \in K : k <= j

FirstNotIn(s, a, S) ==
    LET K == {k \in a..Len(s) : s[k] \notin S}
    IN  IF K = {} THEN Len(s) + 1 ELSE CHOOSE k \in K : \A j \in K : k <= j

\* re.sub of a pattern "d, shortest group of any characters, d" by
\* open\1close, from position i on: every d followed on the same line by a
\* further d is replaced, with the shortest text between.
RECURSIVE sub_pair(_, _, _, _, _)
sub_pair(s, i, d, open, close) ==
    IF i > Len(s) THEN <<>>
    ELSE
      LET from == i + Len(d)
          ends == {j \in from..Len(s) :
                     At(s, j, d) /\ \A k \in from..(j - 1) : s[k] \notin LineEnd}
      IN  IF At(s, i, d) /\ ends # {}
          THEN LET j == CHOOSE e \in ends : \A f \in ends : e <= f
               IN  <<open>> \o SubSeq(s, from, j - 1) \o <<close>>
                       \o sub_pair(s, j + Len(d), d, open, close)
          ELSE <<s[i]>> \o sub_pair(s, i + 1, d, open, close)

\* re.sub of a heading pattern (the marker h, \s*, then a group of any
\* characters) by <b>\1</b>, from position i on: the marker, the whitespace
\* after it (line ends too) and the rest of the line.
RECURSIVE sub_heading(_, _, _)
sub_heading(s, i, h) ==
    IF i > Len(s) THEN <<>>
    ELSE IF At(s, i, h)
    THEN LET b == FirstNotIn(s, i + Len(h), Whitespace)
             c == FirstIn(s, b, LineEnd)
         IN  <<"<b>">> \o SubSeq(s, b, c - 1) \o <<"</b>">> \o sub_heading(s, c, h)
    ELSE <<s[i]>> \o sub_heading(s, i + 1, h)

\* ([1-9]|1[0-9]|20)
SourceNumbers ==
    {<<d>> : d \in {"1", "2", "3", "4", "5", "6", "7", "8", "9"}}
        \cup {<<"1", d>> : d \in {"0", "1", "2", "3", "4", "5", "6", "7", "8", "9"}}
        \cup {<<"2", "0">>}

\* re.sub(\[([1-9]|1[0-9]|20)\], '', s) from position i on.
RECURSIVE sub_source_numbers(_, _)
sub_source_numbers(s, i) ==
    IF i > Len(s) THEN <<>>
    ELSE
      LET N == {n \in 1..2 : /\ i + n + 1 <= Len(s)
                             /\ SubSeq(s, i + 1, i + n) \in SourceNumbers
                             /\ s[i + n + 1] = "]"}
      IN  IF s[i] = "[" /\ N # {}
          THEN sub_source_numbers(s, i + 2 + CHOOSE n \in N : TRUE)
          ELSE <<s[i]>> \o sub_source_numbers(s, i + 1)

\* re.sub([\[\]()], '', s)
sub_brackets(s) == SelectSeq(s, LAMBDA c : c \notin {"[", "]", "(", ")"})

\* re.sub(\n\s*\n\s*\n+, \n\n, s) from position i on: a run of whitespace
\* that starts at a line end and holds three line ends or more is replaced,
\* up to its last line end.
RECURSIVE sub_blank_lines(_, _)
sub_blank_lines(s, i) ==
    IF i > Len(s) THEN <<>>
    ELSE
      LET e == FirstNotIn(s, i, Whitespace) - 1
          nl == {k \in i..e : s[k] = "\n"}
      IN  IF s[i] = "\n" /\ Cardinality(nl) >= 3
          THEN <<"\n", "\n">>
                  \o sub_blank_lines(s, 1 + CHOOSE k \in nl : \A j \in nl : j <= k)
          ELSE <<s[i]>> \o sub_blank_lines(s, i + 1)

\* re.sub([ \t]+, ' ', s) from position i on.
RECURSIVE sub_spaces(_, _)
sub_spaces(s, i) ==
    IF i > Len(s) THEN <<>>
    ELSE IF s[i] \in {" ", "\t"}
    THEN <<" ">> \o sub_spaces(s, FirstNotIn(s, i, {" ", "\t"}))
    ELSE <<s[i]>> \o sub_spaces(s, i + 1)

\* str.strip()
strip(s) ==
    LET K == {k \in 1..Len(s) : s[k] \notin Whitespace}
    IN  IF K = {} THEN <<>>
        ELSE SubSeq(s, CHOOSE k \in K : \A j \in K : k <= j,
                       CHOOSE k \in K : \A j \in K : j <= k)

markdown_to_html(t0) ==
    LET t1 == sub_pair(t0, 1, <<"*", "*">>, "<b>", "</b>")
        t2 == sub_pair(t1, 1, <<"*">>, "<i>", "</i>")
        t3 == sub_pair(t2, 1, <<"backtick">>, "<code>", "</code>")
        t4 == sub_heading(t3, 1, <<"#", "#", "#">>)
        t5 == sub_heading(t4, 1, <<"#", "#">>)
        t6 == sub_heading(t5, 1, <<"#">>)
        t7 == sub_source_numbers(t6, 1)
        t8 == sub_brackets(t7)
        t9 == sub_blank_lines(t8, 1)
        t10 == sub_spaces(t9, 1)
    IN  strip(t10)

InitBot ==
    /\ today = 0
    /\ user_data = [u \in Users |-> EmptyUserData]
    \* load_user_limits: user_limits = pickle.load(f)
    /\ user_limits = LoadedSnapshot
    /\ pkl = user_limits
    /\ update_queue = <<>>
    /\ nUpdates = 0
    /\ handlers = [t \in Tasks |-> IdleHandler]

\* No text is being formatted.
\* No reply text is being sent.
NothingToSend ==
    /\ renderer = "none"
    /\ final_answer = <<>>
    /\ parts = <<>>
    /\ sent = <<>>

Init ==
    /\ InitBot
    /\ text = <<>>
    /\ formatted_response = <<>>
    /\ formatted_twice = <<>>
    /\ applications = 0
    /\ NothingToSend

\* An update of user u arrives.
Arrive(u) ==
    /\ nUpdates < MaxUpdates
    /\ Len(update_queue) < MaxQueue
    /\ update_queue' = Append(update_queue, u)
    /\ nUpdates' = nUpdates + 1
    /\ UNCHANGED <<today, user_data, user_limits, pkl, handlers>>
    /\ UNCHANGED formatting
    /\ UNCHANGED sending

\* The calendar day advances.
NextDay ==
    /\ today < MaxDay
    /\ today' = today + 1
    /\ UNCHANGED <<user_data, user_limits, pkl, update_queue, nUpdates, handlers>>
    /\ UNCHANGED formatting
    /\ UNCHANGED sending

\* /start
start ==
    /\ CanDispatch
    /\ LET u == Head(update_queue) IN
         handlers' = [handlers EXCEPT ![FreeSlot] =
                         Finish(u, "start", <<"welcome">>, "none")]
    /\ update_queue' = Tail(update_queue)
    /\ UNCHANGED <<today, user_data, user_limits, pkl, nUpdates>>
    /\ UNCHANGED formatting
    /\ UNCHANGED sending

\* button_handler: the three menu selections, help, back_to_main.
button_handler(data) ==
    /\ CanDispatch
    /\ LET u == Head(update_queue) IN
         /\ user_data' = [user_data EXCEPT ![u] =
               IF data \in MenuSelections
                 THEN [@ EXCEPT !.waiting_for = waiting_for_of(data)]
               ELSE IF data = "back_to_main" THEN clear(@)
               ELSE @]
         /\ handlers' = [handlers EXCEPT ![FreeSlot] =
               Finish(u, data,
                      IF data \in MenuSelections THEN <<PromptOf(data)>>
                      ELSE IF data = "back_to_main" THEN <<"clear", "main_menu">>
                      ELSE <<"help">>,
                      "none")]
    /\ update_queue' = Tail(update_queue)
    /\ UNCHANGED <<today, user_limits, pkl, nUpdates>>
    /\ UNCHANGED formatting
    /\ UNCHANGED sending

\* handle_message up to its first await after create_task (or to its end).
handle_message(message_text) ==
    /\ CanDispatch
    /\ LET u == Head(update_queue)
           waiting_for == user_data[u].waiting_for
           gated == Gate(user_limits, u, today)
       IN
         IF waiting_for = "create_instructions" THEN
            LET pass == can_process_document(get_user_limits(user_limits, u, today)[u], today)
                stored == store_instructions(user_data[u])
            IN
            /\ user_data' = [user_data EXCEPT ![u] =
                  IF pass THEN stored ELSE on_rejection(stored)]
            /\ user_limits' = gated
            /\ handlers' = [handlers EXCEPT ![FreeSlot] =
                  IF ~pass
                  THEN [Finish(u, "text", <<"gate", "quota_notice">>, "quota")
                            EXCEPT !.flow = "create"]
                  ELSE [Begin(u, "text", "create", "remote",
                              <<"gate", "typing", "placeholder", "create_task",
                                "remote_call">>)
                            EXCEPT !.message_text = message_text,
                                   !.document_content = 0]]
         ELSE IF waiting_for = "question" THEN
            LET pass == can_ask_question(get_user_limits(user_limits, u, today)[u], today)
            IN
            /\ user_data' = [user_data EXCEPT ![u] =
                  IF pass THEN @ ELSE on_rejection(@)]
            /\ user_limits' = gated
            /\ handlers' = [handlers EXCEPT ![FreeSlot] =
                  IF ~pass
                  THEN [Finish(u, "text", <<"gate", "quota_notice">>, "quota")
                            EXCEPT !.flow = "question"]
                  ELSE Begin(u, "text", "question", "sync_call",
                             <<"gate", "typing", "placeholder", "create_task">>)]
         ELSE
            /\ user_data' = user_data
            /\ user_limits' = user_limits
            /\ handlers' = [handlers EXCEPT ![FreeSlot] =
                  Finish(u, "text", <<"use_menu">>, "none")]
    /\ update_queue' = Tail(update_queue)
    /\ UNCHANGED <<today, pkl, nUpdates>>
    /\ UNCHANGED formatting
    /\ UNCHANGED sending

\* The upload is routed to the analysis flow.
routes_to_analysis_any_mode(waiting_for) == waiting_for # "none"

routes_to_analysis(waiting_for) == waiting_for = "analyze_document"

\* handle_document up to `await context.bot.get_file` (or to its end).
handle_document(file_size, file_name_ext) ==
    /\ CanDispatch
    /\ LET u == Head(update_queue)
           waiting_for == user_data[u].waiting_for
           file_extension == Lower(file_name_ext)
       IN
         IF ~routes_to_analysis(waiting_for) THEN
            /\ user_limits' = user_limits
            /\ user_data' = user_data
            /\ handlers' = [handlers EXCEPT ![FreeSlot] =
                  Finish(u, "document", <<"use_menu">>, "none")]
         ELSE
            LET rejection ==
                  IF ~can_process_document(get_user_limits(user_limits, u, today)[u], today)
                  THEN "quota"
                  ELSE IF file_size > MaxFileSize THEN "too_big"
                  ELSE IF file_extension \notin allowed_extensions THEN "bad_format"
                  ELSE "none"
            IN
            /\ user_limits' = Gate(user_limits, u, today)
            /\ user_data' = [user_data EXCEPT ![u] =
                  IF rejection = "none" THEN @ ELSE on_rejection(@)]
            /\ handlers' = [handlers EXCEPT ![FreeSlot] =
                  IF rejection = "quota"
                  THEN [Finish(u, "document", <<"gate", "quota_notice">>, "quota")
                            EXCEPT !.flow = "analyze"]
                  ELSE IF rejection = "too_big"
                  THEN [Finish(u, "document", <<"gate", rejection>>, rejection)
                            EXCEPT !.flow = "analyze", !.file_size = file_size]
                  ELSE IF rejection = "bad_format"
                  THEN [Finish(u, "document", <<"gate", rejection>>, rejection)
                            EXCEPT !.flow = "analyze", !.file_size = file_size,
                                   !.file_name = file_name_ext,
                                   !.file_extension = file_extension]
                  ELSE [Begin(u, "document", "analyze", "download",
                              <<"gate", "typing", "placeholder", "create_task">>)
                            EXCEPT !.file_size = file_size,
                                   !.file_name = file_name_ext,
                                   !.file_extension = file_extension]]
    /\ update_queue' = Tail(update_queue)
    /\ UNCHANGED <<today, pkl, nUpdates>>
    /\ UNCHANGED formatting
    /\ UNCHANGED sending

\* One iteration of keep_typing: send_chat_action, then asyncio.sleep(4).
\* The task runs only while its handler is suspended and the loop is free;
\* send_chat_action may raise.
keep_typing(t, ok) ==
    LET h == handlers[t] IN
    /\ h.pc \in Suspended
    /\ ~LoopBlocked
    /\ TaskReady(h)
    /\ handlers' = [handlers EXCEPT ![t] =
          IF ok
          THEN [h EXCEPT !.typing_task = "sleeping", !.emitted = @ + 1,
                         !.wake = h.elapsed + KeepTypingInterval]
          ELSE [h EXCEPT !.typing_task = "failed"]]
    /\ UNCHANGED <<today, user_data, user_limits, pkl, update_queue, nUpdates>>
    /\ UNCHANGED formatting
    /\ UNCHANGED sending

\* One time unit passes while a download or a remote call is outstanding.
\* A task that is ready runs before the loop waits again.
Tick(t) ==
    LET h == handlers[t] IN
    /\ h.pc \in {"download", "remote"}
    /\ ~TaskReady(h)
    /\ h.elapsed < MaxCallTime
    /\ handlers' = [handlers EXCEPT ![t].elapsed = @ + 1]
    /\ UNCHANGED <<today, user_data, user_limits, pkl, update_queue, nUpdates>>
    /\ UNCHANGED formatting
    /\ UNCHANGED sending

\* ask_perplexity: requests.post is a synchronous call, so the coroutine
\* runs to its end without yielding to the event loop; `lasted` time units
\* pass meanwhile.  Any failure is returned as the apology string.  The
\* handler goes on, without yielding, to the finally block.
ask_perplexity(t, lasted, result) ==
    LET h == handlers[t] IN
    /\ h.pc = "sync_call"
    /\ handlers' = [handlers EXCEPT ![t] =
          [h EXCEPT !.pc = "stop", !.response = result,
                    !.elapsed = h.elapsed + lasted,
                    !.failure = IF result = "apology" THEN "remote" ELSE "none",
                    !.trace = h.trace \o <<"remote_call">>]]
    /\ UNCHANGED <<today, user_data, user_limits, pkl, update_queue, nUpdates>>
    /\ UNCHANGED formatting
    /\ UNCHANGED sending

too_short_only_empty(document_text) == document_text.len = 0

\* not document_text or len(document_text.strip()) < 10
too_short(document_text) ==
    document_text.len = 0 \/ document_text.stripped < MinTextLen

not_truncated(n) == n

\* len(document_text[:8000])
truncated(n) == IF n > MaxDocumentChars THEN MaxDocumentChars ELSE n

\* get_file / download_as_bytearray return; extract_text_from_file and the
\* length check run; the handler reaches `await ask_chatgpt` or raises.
download_returns(t, document_text) ==
    LET h == handlers[t]
        short == too_short(document_text)
    IN
    /\ h.pc = "download"
    /\ ~LoopBlocked
    /\ ~TaskReady(h)
    /\ user_data' = [user_data EXCEPT ![h.user] =
          IF short THEN on_rejection(@) ELSE @]
    /\ handlers' = [handlers EXCEPT ![t] =
          IF short
          THEN [h EXCEPT !.pc = "stop", !.raised = TRUE, !.failure = "short_text",
                         !.document_text = document_text.stripped,
                         !.trace = h.trace \o <<"download", "extract">>]
          ELSE [h EXCEPT !.pc = "remote",
                         !.document_text = document_text.stripped,
                         !.document_content = truncated(document_text.len),
                         !.trace = h.trace \o <<"download", "extract", "remote_call">>]]
    /\ UNCHANGED <<today, user_limits, pkl, update_queue, nUpdates>>
    /\ UNCHANGED formatting
    /\ UNCHANGED sending

save_user_limits_dumps_empty(tbl) == [u \in {} |-> NewUserLimits(0)]

\* save_user_limits: pickle.dump(user_limits)
save_user_limits(tbl) == tbl

\* ask_chatgpt returns (a text, the apology string, or no content), the
\* client having repeated a failed request or not; then, still inside the
\* try block, increment_documents() and save_user_limits().
ask_chatgpt(t, result, retried) ==
    LET h == handlers[t]
        tbl == [user_limits EXCEPT ![h.user] = increment_documents(@, today)]
    IN
    /\ h.pc = "remote"
    /\ ~LoopBlocked
    /\ ~TaskReady(h)
    /\ retried => max_retries > 0
    /\ user_limits' = tbl
    /\ pkl' = save_user_limits(tbl)
    /\ handlers' = [handlers EXCEPT ![t] =
          [h EXCEPT !.pc = "stop", !.response = result,
                    !.retried = retried,
                    !.failure = IF result = "apology" THEN "remote" ELSE "none",
                    !.trace = h.trace \o
                        IncrementSteps(user_limits[h.user], today)]]
    /\ UNCHANGED <<today, user_data, update_queue, nUpdates>>
    /\ UNCHANGED formatting
    /\ UNCHANGED sending

cancel_without_await(typing_task) == typing_task

\* typing_task.cancel(); await typing_task: the state the task is in when the
\* await returns or raises.
cancel_and_await(typing_task) ==
    IF typing_task \in TypingLive THEN "cancelled" ELSE typing_task

\* The finally block up to `await waiting_message.delete()`.  A task that
\* ended by an exception of its own re-raises it at the await, which
\* `except asyncio.CancelledError` does not catch.
stop_typing(t) ==
    LET h == handlers[t] IN
    /\ h.pc = "stop"
    /\ handlers' = [handlers EXCEPT ![t] =
          [h EXCEPT !.typing_task = cancel_and_await(h.typing_task),
                    !.pc = IF h.typing_task = "failed" THEN "raised" ELSE "delete",
                    !.raised = h.raised \/ h.typing_task = "failed",
                    !.trace = h.trace \o <<"cancel">>]]
    /\ UNCHANGED <<today, user_data, user_limits, pkl, update_queue, nUpdates>>
    /\ UNCHANGED formatting
    /\ UNCHANGED sending

\* Whether an exception leaves the finally block after the deletion: with the
\* deletion outside a try, a failed deletion would raise as well.
delete_unguarded(ok, raised) == raised \/ ~ok

\* try: await waiting_message.delete() / except Exception: pass -- only an
\* exception already raised in the try block is pending afterwards.
delete_swallowing(ok, raised) == raised

\* waiting_message.delete() returns or raises (swallowed); an exception of
\* the try block then leaves the handler.
delete_placeholder(t, ok) ==
    LET h == handlers[t] IN
    /\ h.pc = "delete"
    /\ ~LoopBlocked
    /\ handlers' = [handlers EXCEPT ![t] =
          [h EXCEPT !.waiting_message = IF ok THEN "deleted" ELSE "delete_failed",
                    !.raised = delete_swallowing(ok, h.raised),
                    !.pc = IF delete_swallowing(ok, h.raised)
                           THEN "raised" ELSE "render",
                    !.trace = h.trace \o <<"delete_placeholder">>]]
    /\ UNCHANGED <<today, user_data, user_limits, pkl, update_queue, nUpdates>>
    /\ UNCHANGED formatting
    /\ UNCHANGED sending

\* handle_message, question branch, after the finally block.
render_answer(t) ==
    LET h == handlers[t]
        tbl == [user_limits EXCEPT ![h.user] = increment_questions(@, today)]
    IN
    /\ h.pc = "render"
    /\ h.flow = "question"
    /\ user_limits' = tbl
    /\ pkl' = save_user_limits(tbl)
    /\ handlers' = [handlers EXCEPT ![t] =
          [h EXCEPT !.pc = "done",
                    !.trace = h.trace \o IncrementSteps(user_limits[h.user], today)
                                \o <<"answer", "next_action">>]]
    /\ UNCHANGED <<today, user_data, update_queue, nUpdates>>
    /\ UNCHANGED formatting
    /\ UNCHANGED sending

\* handle_message, create branch, after the finally block: the .docx is
\* built and sent, or the except branch sends the error notice and returns.
render_document(t, built) ==
    LET h == handlers[t]
        ok == h.response # "empty" /\ built
    IN
    /\ h.pc = "render"
    /\ h.flow = "create"
    /\ user_data' = [user_data EXCEPT ![h.user] = IF ok THEN clear(@) ELSE @]
    /\ handlers' = [handlers EXCEPT ![t] =
          [h EXCEPT !.pc = "done",
                    !.failure = IF ok THEN h.failure ELSE "render",
                    !.trace = h.trace \o
                        (IF ok THEN <<"document_file", "clear", "next_action">>
                               ELSE <<"error_notice">>)]]
    /\ UNCHANGED <<today, user_limits, pkl, update_queue, nUpdates>>
    /\ UNCHANGED formatting
    /\ UNCHANGED sending

\* handle_document after the finally block.
render_analysis(t) ==
    LET h == handlers[t]
        ok == h.response # "empty"
    IN
    /\ h.pc = "render"
    /\ h.flow = "analyze"
    /\ user_data' = [user_data EXCEPT ![h.user] = IF ok THEN clear(@) ELSE @]
    /\ handlers' = [handlers EXCEPT ![t] =
          [h EXCEPT !.pc = "done",
                    !.failure = IF ok THEN h.failure ELSE "render",
                    !.trace = h.trace \o
                        (IF ok THEN <<"analysis", "clear", "next_action">>
                               ELSE <<"error_notice">>)]]
    /\ UNCHANGED <<today, user_limits, pkl, update_queue, nUpdates>>
    /\ UNCHANGED formatting
    /\ UNCHANGED sending

Next ==
    \/ \E u \in Users : Arrive(u)
    \/ NextDay
    \/ start
    \/ \E data \in ButtonData : button_handler(data)
    \/ \E message_text \in MessageLens : handle_message(message_text)
    \/ \E size \in FileSizes, ext \in FileExtensions : handle_document(size, ext)
    \/ \E t \in Tasks, ok \in BOOLEAN : keep_typing(t, ok)
    \/ \E t \in Tasks : Tick(t)
    \/ \E t \in Tasks, lasted \in 0..MaxCallTime, result \in {"answer", "apology"} :
          ask_perplexity(t, lasted, result)
    \/ \E t \in Tasks, document_text \in ExtractedTexts :
          download_returns(t, document_text)
    \/ \E t \in Tasks, result \in {"answer", "apology", "empty"}, retried \in BOOLEAN :
          ask_chatgpt(t, result, retried)
    \/ \E t \in Tasks : stop_typing(t)
    \/ \E t \in Tasks, ok \in BOOLEAN : delete_placeholder(t, ok)
    \/ \E t \in Tasks : render_answer(t)
    \/ \E t \in Tasks, built \in BOOLEAN : render_document(t, built)
    \/ \E t \in Tasks : render_analysis(t)

Spec == Init /\ [][Next]_vars

\* ------------------------------------------- markdown_to_html, applied twice
\* Any text up to MaxTextLen characters is about to be formatted.
InitFormat ==
    /\ InitBot
    /\ text \in Texts
    /\ formatted_response = <<>>
    /\ formatted_twice = <<>>
    /\ applications = 0
    /\ NothingToSend

\* formatted_response = markdown_to_html(response)
Format ==
    /\ applications = 0
    /\ formatted_response' = markdown_to_html(text)
    /\ applications' = 1
    /\ UNCHANGED <<text, formatted_twice>>
    /\ UNCHANGED <<today, user_data, user_limits, pkl, update_queue, nUpdates, handlers>>
    /\ UNCHANGED sending

\* markdown_to_html applied to its own result.
FormatAgain ==
    /\ applications = 1
    /\ formatted_twice' = markdown_to_html(formatted_response)
    /\ applications' = 2
    /\ UNCHANGED <<text, formatted_response>>
    /\ UNCHANGED <<today, user_data, user_limits, pkl, update_queue, nUpdates, handlers>>
    /\ UNCHANGED sending

NextFormat == Format \/ FormatAgain

SpecFormat == InitFormat /\ [][NextFormat]_vars

\* ------------------------------------------------ a reply text in parts
\* len(final_answer) of the reply texts: one less than, exactly, and one more
\* than each multiple of the part length up to MaxParts parts.
ReplyLens == {ChunkSize * k + d : k \in 1..MaxParts, d \in {-1, 0, 1}}

\* A reply text of n characters; a character is known by its place.
ReplyText(n) == [i \in 1..n |-> i]

Min(a, b) == IF a <= b THEN a ELSE b

\* s[i:i+4001]
slice_one_more(s, i) == SubSeq(s, i + 1, Min(i + ChunkSize + 1, Len(s)))

\* final_answer[i:i+4000]
slice(s, i) == SubSeq(s, i + 1, Min(i + ChunkSize, Len(s)))

\* range(0, len(final_answer), 4000)
range(n) == {i \in 0..(n - 1) : i % ChunkSize = 0}

\* [final_answer[i:i+4000] for i in range(0, len(final_answer), 4000)]
split(s) ==
    [k \in 1..Cardinality(range(Len(s))) |-> slice(s, ChunkSize * (k - 1))]

\* The texts the handler passes to reply_text, in order.
parts_of(s) == IF Len(s) > ChunkSize THEN split(s) ELSE <<s>>

\* A handler has its reply text and has sent none of it.
InitReply ==
    /\ InitBot
    /\ text = <<>>
    /\ formatted_response = <<>>
    /\ formatted_twice = <<>>
    /\ applications = 0
    /\ renderer \in {"handle_message", "handle_document"}
    /\ final_answer \in {ReplyText(n) : n \in ReplyLens}
    /\ parts = <<>>
    /\ sent = <<>>

\* if len(final_answer) > 4000: parts = [...]
check_length ==
    /\ parts = <<>>
    /\ parts' = parts_of(final_answer)
    /\ UNCHANGED <<renderer, final_answer, sent>>
    /\ UNCHANGED <<today, user_data, user_limits, pkl, update_queue, nUpdates, handlers>>
    /\ UNCHANGED formatting

\* await update.message.reply_text(part, ...), the next part of the loop, or
\* the whole text in the else branch.
reply_text ==
    /\ Len(sent) < Len(parts)
    /\ sent' = Append(sent, parts[Len(sent) + 1])
    /\ UNCHANGED <<renderer, final_answer, parts>>
    /\ UNCHANGED <<today, user_data, user_limits, pkl, update_queue, nUpdates, handlers>>
    /\ UNCHANGED formatting

NextReply == check_length \/ reply_text

SpecReply == InitReply /\ [][NextReply]_vars

\* ------------------------------------------------------------ properties
\* The step takes the oldest update off the queue and starts its handler in
\* the slot FreeSlot.
Dequeued == Len(update_queue') < Len(update_queue)

Exhausted(u, data) ==
    /\ u \in DOMAIN user_limits
    /\ IF data = "ask_question"
       THEN ~(reset_if_needed(user_limits[u], today).questions_count < 10)
       ELSE ~(reset_if_needed(user_limits[u], today).documents_count < 10)

\* C1: in every reachable state every user's questions_count and
\* documents_count are at most 10, also when a further update of the user
\* arrives while the remote call of an earlier one is outstanding.
C1_QuotaNeverExceeded ==
    \A u \in DOMAIN user_limits :
        /\ user_limits[u].questions_count <= 10
        /\ user_limits[u].documents_count <= 10

\* An upload's remote call has returned and brought the user to 10 documents
\* while a further update of the same user, which arrived during the call,
\* waits in the queue.
C1_Witness ==
    \E t \in Tasks :
        LET h == handlers[t] IN
        /\ h.pc = "stop"
        /\ h.flow = "analyze"
        /\ Has(h, "increment")
        /\ user_limits[h.user].documents_count = 10
        /\ update_queue # <<>>
        /\ Head(update_queue) = h.user

\* C2 as stated: a menu selection made while the relevant quota is exhausted
\* leaves the session idle and shows the limit notice.
C2_MenuGatedAtSelection ==
    [][Dequeued =>
        LET u == Head(update_queue)
            h2 == handlers'[FreeSlot]
        IN  (h2.update \in MenuSelections /\ Exhausted(u, h2.update)) =>
                /\ user_data'[u].waiting_for = "none"
                /\ Has(h2, "quota_notice")]_vars

\* C2 amended: a menu selection puts the session in the matching awaiting
\* mode whatever the quota, shows the prompt and no limit notice and leaves
\* the quota table alone; the gate is applied when the payload is submitted:
\* a payload submitted with the quota exhausted gets the limit notice and
\* starts no indicator and no remote call.
C2_MenuSetsModeGateAtSubmission ==
    [][Dequeued =>
        LET u == Head(update_queue)
            h2 == handlers'[FreeSlot]
        IN  /\ h2.update \in MenuSelections =>
                /\ h2.update = "ask_question" =>
                        user_data'[u].waiting_for = "question"
                /\ h2.update = "analyze_document" =>
                        user_data'[u].waiting_for = "analyze_document"
                /\ h2.update = "create_document" =>
                        user_data'[u].waiting_for = "create_instructions"
                /\ ~Has(h2, "quota_notice")
                /\ Len(Sent(h2)) = 1
                /\ user_limits' = user_limits
            /\ (/\ h2.update = "text"
                /\ user_data[u].waiting_for = "question"
                /\ Exhausted(u, "ask_question")) =>
                    /\ Has(h2, "quota_notice")
                    /\ h2.pc = "done"
                    /\ h2.typing_task = "none"
            /\ (/\ \/ h2.update = "text" /\ user_data[u].waiting_for = "create_instructions"
                   \/ h2.update = "document" /\ user_data[u].waiting_for = "analyze_document"
                /\ Exhausted(u, "analyze_document")) =>
                    /\ Has(h2, "quota_notice")
                    /\ h2.pc = "done"
                    /\ h2.typing_task = "none"]_vars

\* A user with 10 questions today has selected ask_question and is now in
\* awaiting_question mode.
C2_Witness ==
    \E t \in Tasks :
        LET h == handlers[t] IN
        /\ h.pc = "done"
        /\ h.update = "ask_question"
        /\ h.user \in DOMAIN user_limits
        /\ user_limits[h.user].questions_count = 10
        /\ user_limits[h.user].last_reset = today
        /\ user_data[h.user].waiting_for = "question"

\* C3: once the reply to a text handled in awaiting_question mode has been
\* delivered, the session mode is idle.
C3_IdleAfterAnswer ==
    \A t \in Tasks :
        LET h == handlers[t] IN
        (h.pc = "done" /\ h.flow = "question" /\ Has(h, "answer")) =>
            user_data[h.user].waiting_for = "none"

\* The message that tells the user of a failure.
NoticeOf(h) ==
    CASE h.failure = "quota" -> {"quota_notice"}
      [] h.failure = "too_big" -> {"too_big"}
      [] h.failure = "bad_format" -> {"bad_format"}
      [] h.failure \in {"short_text", "render"} -> {"error_notice"}
      [] h.failure = "remote" -> {"answer", "analysis", "document_file"}
      [] OTHER -> {}

\* C4: a handler in which a failure occurred (quota, extension, size, short
\* text, remote failure, render failure) does not end by an exception and
\* has sent the user a message for the failure.
C4_EveryFailureEndsWithMessage ==
    \A t \in Tasks :
        LET h == handlers[t] IN
        (/\ h.pc \in {"done", "raised"}
         /\ h.failure # "none"
         /\ h.typing_task # "failed") =>
            /\ h.pc = "done"
            /\ \E m \in NoticeOf(h) : Has(h, m)

Rejections == {"quota", "too_big", "bad_format", "short_text"}

Mismatch(h) ==
    \/ h.update = "text" /\ h.before.waiting_for \in {"analyze_document", "none"}
    \/ h.update = "document" /\
          h.before.waiting_for \in {"question", "create_instructions", "none"}

\* C6 as stated: input that does not match the mode gets the use-the-menu
\* prompt and leaves the session idle.
C6_MismatchLeavesIdle ==
    \A t \in Tasks :
        LET h == handlers[t] IN
        (h.pc \in {"done", "raised"} /\ Mismatch(h)) =>
            /\ Has(h, "use_menu")
            /\ user_data[h.user].waiting_for = "none"

\* C6 amended: input that does not match the mode gets the use-the-menu
\* prompt and nothing else, and leaves the session mode and the stored
\* payload as they were.
C6_MismatchKeepsMode ==
    \A t \in Tasks :
        LET h == handlers[t] IN
        (InFlight(h) \/ h.pc \in {"done", "raised"}) /\ Mismatch(h) =>
            /\ h.pc = "done"
            /\ h.trace = <<"use_menu">>
            /\ user_data[h.user] = h.before

\* An upload sent in awaiting_question mode got the prompt and the session is
\* still in awaiting_question mode.
C6_Witness ==
    \E t \in Tasks :
        LET h == handlers[t] IN
        /\ h.pc = "done"
        /\ h.update = "document"
        /\ h.before.waiting_for = "question"
        /\ Has(h, "use_menu")
        /\ user_data[h.user].waiting_for = "question"

\* C7: back_to_main sets the mode to idle from every mode, discards the
\* stored create instructions and changes neither the quota table nor its
\* snapshot.
C7_BackToMainResets ==
    [][(Dequeued /\ handlers'[FreeSlot].update = "back_to_main") =>
        LET u == Head(update_queue) IN
        /\ user_data'[u].waiting_for = "none"
        /\ user_data'[u].create_instructions = "none"
        /\ user_limits' = user_limits
        /\ pkl' = pkl]_vars

\* back_to_main was handled for a user who was in awaiting_create_instructions
\* mode with instructions stored; the session is idle with nothing stored.
C7_Witness ==
    \E t \in Tasks :
        LET h == handlers[t] IN
        /\ h.pc = "done"
        /\ h.update = "back_to_main"
        /\ h.before.waiting_for = "create_instructions"
        /\ h.before.create_instructions = "text"
        /\ user_data[h.user].waiting_for = "none"
        /\ user_data[h.user].create_instructions = "none"

\* C8: once a handler has started the keep_typing task, the task has ended
\* before the handler sends any further message and before the handler
\* ends, and the task emits nothing after the handler's cancel.
C8_TypingStoppedBeforeReply ==
    [][\A t \in Tasks :
        LET h == handlers[t]
            h2 == handlers'[t]
        IN  /\ (/\ h.typing_task # "none"
                /\ InFlight(h)
                /\ Len(Sent(h2)) > Len(Sent(h))) =>
                    h.typing_task \in {"cancelled", "failed"}
            /\ (h2.pc \in {"done", "raised"} /\ h2.typing_task # "none") =>
                    h2.typing_task \in {"cancelled", "failed"}
            /\ (Has(h, "cancel") /\ InFlight(h)) =>
                    /\ h2.emitted = h.emitted
                    /\ h2.typing_task = h.typing_task]_vars

\* An analysis was delivered after the task, which had emitted, was
\* cancelled.
C8_Witness ==
    \E t \in Tasks :
        LET h == handlers[t] IN
        /\ h.pc = "done"
        /\ Has(h, "analysis")
        /\ h.typing_task = "cancelled"
        /\ h.emitted >= 1

\* C9: when a remote call has returned after e time units, the keep_typing
\* task has emitted the signal once at the start and once every 4 time
\* units since, on the question path as on the document paths.
C9_TaskEmitsDuringCall ==
    \A t \in Tasks :
        LET h == handlers[t] IN
        (h.pc = "stop" /\ Has(h, "remote_call") /\ h.typing_task # "failed") =>
            h.emitted >= 1 + (h.elapsed \div 4)

\* C10: an upload in awaiting_analyze_upload mode, or a text in
\* awaiting_create_instructions mode, from a user with 10 documents today is
\* answered with the quota notice only: no download, extraction, indicator
\* or remote call, and the quota table is unchanged.
C10_DocumentQuotaRejects ==
    [][Dequeued =>
        LET u == Head(update_queue)
            h2 == handlers'[FreeSlot]
        IN  (/\ u \in DOMAIN user_limits
             /\ user_limits[u].documents_count = 10
             /\ user_limits[u].last_reset = today
             /\ \/ h2.update = "document" /\ user_data[u].waiting_for = "analyze_document"
                \/ h2.update = "text" /\ user_data[u].waiting_for = "create_instructions") =>
                /\ h2.pc = "done"
                /\ Sent(h2) = <<"quota_notice">>
                /\ \A s \in {"download", "extract", "create_task", "remote_call",
                             "increment", "save"} : ~Has(h2, s)
                /\ h2.typing_task = "none"
                /\ user_limits' = user_limits
                /\ pkl' = pkl]_vars

\* An upload of a user with 10 documents today was rejected with the notice.
C10_Witness ==
    \E t \in Tasks :
        LET h == handlers[t] IN
        /\ h.pc = "done"
        /\ h.update = "document"
        /\ h.before.waiting_for = "analyze_document"
        /\ Has(h, "quota_notice")
        /\ user_limits[h.user].documents_count = 10
        /\ user_limits[h.user].last_reset = today

\* The update taken off the queue is a question / a document request of u.
AsksQuestion(u, h2) ==
    h2.update = "text" /\ user_data[u].waiting_for = "question"

AsksDocument(u, h2) ==
    \/ h2.update = "text" /\ user_data[u].waiting_for = "create_instructions"
    \/ h2.update = "document" /\ user_data[u].waiting_for = "analyze_document"

\* C11: the gate of a submitted payload answers "no" (the quota notice)
\* exactly when the user's record is of the current day and its counter is
\* 10 or more; on the first call after the day has advanced it answers "yes"
\* whatever the counters were, and the record is reset to the new day.
C11_GateFalseExactlyAtLimit ==
    [][Dequeued =>
        LET u == Head(update_queue)
            h2 == handlers'[FreeSlot]
            sameDay == u \in DOMAIN user_limits /\ user_limits[u].last_reset = today
            advanced == u \in DOMAIN user_limits /\ user_limits[u].last_reset < today
        IN  /\ AsksQuestion(u, h2) =>
                (h2.failure = "quota" <=>
                    (sameDay /\ user_limits[u].questions_count >= 10))
            /\ AsksDocument(u, h2) =>
                (h2.failure = "quota" <=>
                    (sameDay /\ user_limits[u].documents_count >= 10))
            /\ ((AsksQuestion(u, h2) \/ AsksDocument(u, h2)) /\ advanced) =>
                /\ h2.failure # "quota"
                /\ user_limits'[u] = [questions_count |-> 0, documents_count |-> 0,
                                      last_reset |-> today]]_vars

\* A user who ended the previous day with 10 questions (the snapshot still
\* shows them) has passed the gate with a question on the new day.
C11_Witness ==
    \E t \in Tasks :
        LET h == handlers[t] IN
        /\ h.pc = "sync_call"
        /\ h.flow = "question"
        /\ h.user \in DOMAIN pkl
        /\ pkl[h.user].questions_count = 10
        /\ pkl[h.user].last_reset < today
        /\ user_limits[h.user].questions_count = 0
        /\ user_limits[h.user].last_reset = today

\* The record an increment of counter c must leave: the rollover first, when
\* the record is of an earlier day, then one more.
AfterIncrement(l, c) ==
    IF l.last_reset < today
    THEN [[questions_count |-> 0, documents_count |-> 0, last_reset |-> today]
            EXCEPT ![c] = 1]
    ELSE [l EXCEPT ![c] = @ + 1]

\* C12: every accessor does the rollover before it compares or increments: a
\* gate or an increment that finds a record of an earlier day works on the
\* reset record (counters 0, anchor today); and the rollover is idempotent:
\* applied to a record whose anchor is today it changes nothing, so a gate
\* call on a record of today leaves the quota table as it was.
C12_RolloverFirstAndIdempotent ==
    [][/\ \A u \in DOMAIN user_limits :
            LET l == user_limits[u]
                r == reset_if_needed(l, today)
            IN  /\ l.last_reset = today => r = l
                /\ r.last_reset = today
                /\ reset_if_needed(r, today) = r
       /\ Dequeued =>
            LET u == Head(update_queue)
                h2 == handlers'[FreeSlot]
            IN  /\ (u \in DOMAIN user_limits /\ user_limits[u].last_reset = today) =>
                    user_limits' = user_limits
                /\ (/\ AsksQuestion(u, h2) \/ AsksDocument(u, h2)
                    /\ u \in DOMAIN user_limits
                    /\ user_limits[u].last_reset < today) =>
                        /\ user_limits'[u].last_reset = today
                        /\ h2.failure # "quota"
       /\ \A t \in Tasks :
            LET h == handlers[t]
                h2 == handlers'[t]
            IN  (~Has(h, "increment") /\ Has(h2, "increment")) =>
                    user_limits'[h.user] =
                        AfterIncrement(user_limits[h.user],
                                       IF h.flow = "question" THEN "questions_count"
                                       ELSE "documents_count")]_vars

\* A question passed the gate on one day and its increment ran on the next:
\* the increment reset the record first and the count is 1.
C12_Witness ==
    \E t \in Tasks :
        LET h == handlers[t] IN
        /\ h.pc = "done"
        /\ h.flow = "question"
        /\ Has(h, "reset")
        /\ user_limits[h.user] = [questions_count |-> 1, documents_count |-> 0,
                                  last_reset |-> today]

\* The chat messages whose body is the text the remote call returned.
ResponseAsChatText == {"answer", "analysis"}

\* C13: a create-flow handler whose remote call returned a text and whose
\* document file was not delivered has sent that text as chat text.
C13_TextDeliveredWhenFileFails ==
    \A t \in Tasks :
        LET h == handlers[t] IN
        (/\ h.pc = "done"
         /\ h.flow = "create"
         /\ h.response \in {"answer", "apology"}
         /\ ~Has(h, "document_file")) =>
            \E m \in ResponseAsChatText : Has(h, m)

\* C14: from the step in which an upload's extracted text is found empty or
\* shorter than 10 characters after strip(), to the end of its handler, no
\* remote call is made or answered and the quota table and its snapshot do
\* not change.
C14_ShortTextNoCallNoQuota ==
    [][\A t \in Tasks :
        LET h == handlers[t]
            h2 == handlers'[t]
        IN  (InFlight(h) /\ Has(h2, "extract") /\ h2.document_text < 10) =>
                /\ \A s \in {"remote_call", "increment", "save"} : ~Has(h2, s)
                /\ h2.response = "unset"
                /\ h2.pc # "remote"
                /\ user_limits' = user_limits
                /\ pkl' = pkl]_vars

\* An upload whose text was 9 characters among whitespace has ended: no
\* remote call was made and the user still has 9 documents today.
C14_Witness ==
    \E t \in Tasks :
        LET h == handlers[t] IN
        /\ h.pc = "raised"
        /\ h.flow = "analyze"
        /\ h.document_text = 9
        /\ ~Has(h, "remote_call")
        /\ user_limits[h.user].documents_count = 9
        /\ user_limits[h.user].last_reset = today
        /\ pkl = user_limits

\* The backend call of h's event has returned to the handler.
CallReturned(h) == Has(h, "remote_call") /\ h.response # "unset"

\* C15: a backend call returns to its handler, never raises; a failed call
\* returns the apology string; and an event makes one request to its backend
\* at most: one call, and no repetition of a failed request.
C15_NoRaiseSingleAttempt ==
    \A t \in Tasks :
        LET h == handlers[t] IN
        /\ (h.pc = "stop" /\ Has(h, "remote_call")) =>
                /\ CallReturned(h)
                /\ ~h.raised
                /\ h.failure = "remote" => h.response = "apology"
        /\ Count(h, "remote_call") <= 1
        /\ CallReturned(h) => ~h.retried

\* C16: the document text of every ask_chatgpt call, on the analyze path and
\* on the create path, is at most 8000 characters long, and so is all the
\* text of the user in the request (the create instructions in the prompt
\* plus the document text).
C16_DocumentTextAtMost8000 ==
    \A t \in Tasks :
        LET h == handlers[t] IN
        (Has(h, "remote_call") /\ h.flow \in {"analyze", "create"}) =>
            /\ h.document_content <= 8000
            /\ h.message_text + h.document_content <= 8000
            /\ h.flow = "create" => h.document_content = 0

\* A document of 8001 characters was sent to ask_chatgpt as 8000 characters.
C16_Witness ==
    \E t \in Tasks :
        LET h == handlers[t] IN
        /\ h.flow = "analyze"
        /\ Has(h, "remote_call")
        /\ h.document_text = 8001
        /\ h.document_content = 8000

\* C17: no two handlers of events of the same user are between their start
\* and their completion at the same time; a further event of a user whose
\* handler awaits a remote call stays in the queue.
C17_OneHandlerPerUser ==
    \A t1, t2 \in Tasks :
        (t1 # t2 /\ InFlight(handlers[t1]) /\ InFlight(handlers[t2])) =>
            handlers[t1].user # handlers[t2].user

\* A handler of a user awaits its remote call while a further event of the
\* same user waits in the queue, and no other handler is in flight.
C17_Witness ==
    \E t \in Tasks :
        LET h == handlers[t] IN
        /\ h.pc = "remote"
        /\ update_queue # <<>>
        /\ Head(update_queue) = h.user
        /\ \A s \in Tasks \ {t} : ~InFlight(handlers[s])

\* The users whose event the step handles: the user of the update taken off
\* the queue, or of the handler that takes a step.
ActingUsers ==
    IF Dequeued THEN {Head(update_queue)}
    ELSE {handlers[t].user : t \in {s \in Tasks : handlers'[s] # handlers[s]}}

\* C18: a step that handles an event of user A (a menu selection, a text, an
\* upload, a return to the menu, and every later step of its handler) leaves
\* the session mode, the stored payload and the quota record of every other
\* user B as they were.
C18_OtherUsersUnchanged ==
    [][\A B \in Users :
        (ActingUsers # {} /\ B \notin ActingUsers) =>
            /\ user_data'[B] = user_data[B]
            /\ B \in DOMAIN user_limits' <=> B \in DOMAIN user_limits
            /\ B \in DOMAIN user_limits => user_limits'[B] = user_limits[B]]_vars

\* An event of one user was handled to its end and consumed quota while
\* another user, whose record is of an earlier day, is in an awaiting mode:
\* that user's mode and counters are as they were.
C18_Witness ==
    \E t \in Tasks :
        LET h == handlers[t] IN
        /\ h.pc = "done"
        /\ Has(h, "increment")
        /\ \E B \in Users \ {h.user} :
              /\ user_data[B].waiting_for # "none"
              /\ B \in DOMAIN user_limits
              /\ user_limits[B].last_reset < today
              /\ user_limits[B].questions_count = 9

\* C19 as stated: whenever a handler has finished and none is running, the
\* snapshot equals the quota table, also after a lazy creation and after a
\* rollover inside the gate.
C19_SnapshotEqualsTable ==
    (/\ \A t \in Tasks : ~InFlight(handlers[t])
     /\ \E t \in Tasks : handlers[t].pc = "done") =>
        pkl = user_limits

\* The counters of user u that count on day d according to table tbl: those
\* of u's record when it is of day d, zero when there is no record or it is
\* of an earlier day.
CountsOn(tbl, u, d) ==
    IF u \in DOMAIN tbl /\ tbl[u].last_reset >= d
    THEN <<tbl[u].questions_count, tbl[u].documents_count>>
    ELSE <<0, 0>>

\* C19 amended: the snapshot is written by the step that increments a
\* counter, and by no other: after that step it equals the quota table.  A
\* record the gate creates or rolls over is not written until the next
\* increment; the snapshot then differs from the table only in records whose
\* counters are zero today: every user's counters for the current day are
\* the same in both.
C19_SnapshotAfterIncrement ==
    [][/\ \A t \in Tasks :
            LET h == handlers[t]
                h2 == handlers'[t]
            IN  (~Has(h, "increment") /\ Has(h2, "increment")) =>
                    /\ Has(h2, "save")
                    /\ pkl' = user_limits'
       /\ pkl' # pkl =>
            \E t \in Tasks : ~Has(handlers[t], "save") /\ Has(handlers'[t], "save")
       /\ \A u \in Users :
            CountsOn(pkl', u, today') = CountsOn(user_limits', u, today')]_vars

\* An upload of a user whose record was of the day before was rejected for
\* its format: the gate rolled the record over in memory and the snapshot
\* still holds the old record.
C19_Witness ==
    \E t \in Tasks :
        LET h == handlers[t] IN
        /\ h.pc = "done"
        /\ h.failure = "bad_format"
        /\ user_limits[h.user] = [questions_count |-> 0, documents_count |-> 0,
                                  last_reset |-> today]
        /\ h.user \in DOMAIN pkl
        /\ pkl[h.user].documents_count = 9
        /\ pkl[h.user].last_reset < today

\* C20: a text formatted twice equals the text formatted once:
\* markdown_to_html(markdown_to_html(x)) = markdown_to_html(x) for every x.
C20_Idempotent ==
    applications = 2 => formatted_twice = formatted_response

\* C21: an upload whose handler got as far as the indicator task (and so to
\* the download, the extraction and the remote call) had a size of at most
\* 20 MiB and an extension that, lower-cased, is .txt, .docx or .pdf; and an
\* upload named .pdf in any letter case, in analyze mode, that the quota and
\* size checks let through, is not rejected: its file is downloaded and
\* extracted, and the remote call is made on every extracted text of at
\* least 10 characters.
C21_UploadGate ==
    \A t \in Tasks :
        LET h == handlers[t] IN
        h.update = "document" =>
            /\ (Has(h, "create_task") \/ Has(h, "download") \/ Has(h, "extract")
                    \/ Has(h, "remote_call")) =>
                 /\ h.file_size <= 20 * 1024 * 1024
                 /\ \E e \in {".txt", ".docx", ".pdf"} :
                        /\ h.file_extension = e
                        /\ h.file_name \in {e, IF e = ".pdf" THEN ".PDF" ELSE e}
            /\ (/\ h.flow = "analyze"
                /\ h.failure \notin {"quota", "too_big"}
                /\ h.file_name \in {".pdf", ".PDF"}) =>
                 /\ Has(h, "create_task")
                 /\ h.pc # "download" => Has(h, "download") /\ Has(h, "extract")
                 /\ (h.pc # "download" /\ h.document_text >= 10) =>
                        Has(h, "remote_call")

\* An upload named .PDF of exactly 20 MiB reached the remote call.
C21_Witness ==
    \E t \in Tasks :
        LET h == handlers[t] IN
        /\ h.update = "document"
        /\ h.file_name = ".PDF"
        /\ h.file_size = 20 * 1024 * 1024
        /\ Has(h, "remote_call")

\* C22: the step of a create or analyze handler that delivers the result
\* (the .docx file, or the analysis text) leaves the user's session idle:
\* waiting_for is unset and the stored create instructions are gone.
C22_IdleAfterDelivery ==
    [][\A t \in Tasks :
          LET h == handlers[t]
              h2 == handlers'[t]
              delivers(k) == ~Has(h, k) /\ Has(h2, k)
          IN  (InFlight(h) /\ h2.flow \in {"create", "analyze"}
                 /\ (delivers("document_file") \/ delivers("analysis"))) =>
                  /\ h2.pc = "done"
                  /\ user_data'[h2.user].waiting_for = "none"
                  /\ user_data'[h2.user].create_instructions = "none"
                  /\ user_data'[h2.user] = EmptyUserData]_vars

\* A create handler that had stored the instructions delivered its file, and
\* the session is empty.
C22_Witness ==
    \E t \in Tasks :
        LET h == handlers[t] IN
        /\ h.flow = "create"
        /\ h.pc = "done"
        /\ Has(h, "document_file")
        /\ h.response = "answer"
        /\ user_data[h.user] = EmptyUserData

\* The chat messages that deliver the output of a flow.
Deliveries == {"answer", "analysis", "document_file"}

\* C23: the steps of one event occur in the order quota gate, indicator
\* start, remote call, indicator stop, delivery of the output, quota
\* increment and save, session reset; a handler that has incremented the
\* quota has already stopped its indicator and delivered its output.
C23_StepsInOrder ==
    \A t \in Tasks :
        LET h == handlers[t]
            before(a, b) == (Has(h, a) /\ Has(h, b)) => Pos(h, a) < Pos(h, b)
        IN  /\ before("gate", "create_task")
            /\ before("create_task", "remote_call")
            /\ before("remote_call", "cancel")
            /\ \A d \in Deliveries :
                  /\ before("cancel", d)
                  /\ before(d, "increment")
                  /\ before(d, "clear")
            /\ before("increment", "save")
            /\ before("save", "clear")
            /\ Has(h, "increment") =>
                  /\ Has(h, "cancel") /\ Pos(h, "cancel") < Pos(h, "increment")
                  /\ \E d \in Deliveries :
                        Has(h, d) /\ Pos(h, d) < Pos(h, "increment")

\* C24: the step in which a handler whose remote call has returned counts its
\* event adds exactly 1 to the matching counter of its user for the current
\* day (questions for the question flow, documents for create and analyze)
\* and 0 to the other, whatever the call returned; and each handler that
\* ends after its call returned has counted its event once.
C24_ExactlyOneIncrement ==
    [][\A t \in Tasks :
          LET h == handlers[t]
              h2 == handlers'[t]
              c == CountsOn(user_limits, h.user, today)
              c2 == CountsOn(user_limits', h.user, today')
          IN  /\ (~Has(h, "increment") /\ Has(h2, "increment")) =>
                    /\ CallReturned(h2)
                    /\ h2.response \in {"answer", "apology", "empty"}
                    /\ h2.flow = "question" => c2 = <<c[1] + 1, c[2]>>
                    /\ h2.flow \in {"create", "analyze"} => c2 = <<c[1], c[2] + 1>>
              /\ (InFlight(h) /\ h2.pc \in Finished /\ CallReturned(h2)) =>
                    Count(h2, "increment") = 1]_vars

\* A user's first question of the day was answered with the apology string
\* and the user stands at 1 question and 0 documents.
C24_Witness ==
    \E t \in Tasks :
        LET h == handlers[t] IN
        /\ h.flow = "question"
        /\ h.pc = "done"
        /\ h.response = "apology"
        /\ Has(h, "increment")
        /\ user_limits[h.user] = [questions_count |-> 1, documents_count |-> 0,
                                  last_reset |-> today]

\* C25: a create-flow handler whose generation call failed (it returned the
\* apology string) sends no document file, built from that string and sent
\* under the success caption; it ends with the error notice.
C25_NoDocumentFromApology ==
    \A t \in Tasks :
        LET h == handlers[t] IN
        (h.flow = "create" /\ h.response = "apology") =>
            /\ ~Has(h, "document_file")
            /\ h.pc = "done" => Has(h, "error_notice")

\* The chat messages a handler sends after its finally block.
Replies == Deliveries \cup {"error_notice", "next_action"}

\* C26: the placeholder's deletion is attempted after the indicator was
\* stopped and before any reply; a deletion that fails raises nothing: the
\* handler goes on as after a successful one, its reply is sent, and the
\* quota and session updates of the event are made.
C26_DeleteFailureSwallowed ==
    \A t \in Tasks :
        LET h == handlers[t] IN
        /\ Has(h, "delete_placeholder") =>
              /\ Has(h, "cancel")
              /\ Pos(h, "cancel") < Pos(h, "delete_placeholder")
              /\ \A r \in Replies :
                    Has(h, r) => Pos(h, "delete_placeholder") < Pos(h, r)
        /\ \A r \in Replies : (InFlight(h) \/ h.pc = "done") /\ Has(h, r) =>
              Has(h, "delete_placeholder")
        /\ h.waiting_message = "delete_failed" =>
              /\ h.raised => h.failure = "short_text"
              /\ h.pc \in {"render", "done", "raised"}
              /\ h.pc = "raised" <=> h.raised
              /\ (h.pc = "done" /\ h.flow = "question") =>
                    Has(h, "answer") /\ Has(h, "increment") /\ Has(h, "save")
              /\ (h.pc = "done" /\ h.flow = "analyze") =>
                    /\ Has(h, "increment") /\ Has(h, "save")
                    /\ h.response # "empty" => Has(h, "analysis") /\ Has(h, "clear")
              /\ (h.pc = "done" /\ h.flow = "create") =>
                    /\ Has(h, "increment") /\ Has(h, "save")
                    /\ h.failure # "render" =>
                          Has(h, "document_file") /\ Has(h, "clear")

\* The placeholder of a question could not be deleted and the answer was
\* sent all the same.
C26_Witness ==
    \E t \in Tasks :
        LET h == handlers[t] IN
        /\ h.waiting_message = "delete_failed"
        /\ h.pc = "done"
        /\ h.flow = "question"
        /\ Has(h, "answer")
        /\ Has(h, "increment")

\* The texts of a sequence of parts, joined in order.
RECURSIVE Joined(_)
Joined(ps) == IF ps = <<>> THEN <<>> ELSE Head(ps) \o Joined(Tail(ps))

\* C27: a reply text of more than 4000 characters is passed to reply_text in
\* consecutive parts, each of 1 to 4000 characters, which joined in sending
\* order are the reply text; a reply text of at most 4000 characters is
\* passed to reply_text whole, as one message.
C27_PartsMakeTheReply ==
    /\ parts # <<>> =>
          /\ Joined(parts) = final_answer
          /\ \A k \in 1..Len(parts) :
                Len(parts[k]) >= 1 /\ Len(parts[k]) <= 4000
          /\ Len(final_answer) > 4000 => Len(parts) >= 2
          /\ Len(final_answer) <= 4000 => parts = <<final_answer>>
    /\ Len(sent) <= Len(parts)
    /\ sent = SubSeq(parts, 1, Len(sent))
    /\ (parts # <<>> /\ Len(sent) = Len(parts)) => Joined(sent) = final_answer

\* A reply text of 8001 characters went out as 4000, 4000 and 1 characters.
C27_Witness ==
    /\ Len(final_answer) = 8001
    /\ Len(sent) = 3
    /\ Len(sent[1]) = 4000
    /\ Len(sent[2]) = 4000
    /\ Len(sent[3]) = 1

\* The two counters of u in table tbl, zero when u has no record.
Counters(tbl, u) ==
    IF u \in DOMAIN tbl
    THEN <<tbl[u].questions_count, tbl[u].documents_count>>
    ELSE <<0, 0>>

\* The step sets the counters of u, whose record is of an earlier day, to 0.
RolledOver(u) ==
    /\ u \in DOMAIN user_limits
    /\ user_limits[u].last_reset < today
    /\ Counters(user_limits', u) = <<0, 0>>

\* C28: a step changes the two counters of a user only when it is the step of
\* a handler of that user whose remote call has returned, or the reset to
\* zero of a record of an earlier day.  Every handler that ends without a
\* remote call (/start, a menu selection, help, the return to the menu, an
\* input that does not match the mode, a payload rejected by the quota,
\* size, extension or text-length check) leaves both counters as they were,
\* the rollover excepted.
C28_CountersUnchangedWithoutCall ==
    [][\A u \in Users :
          /\ Counters(user_limits', u) # Counters(user_limits, u) =>
                \/ RolledOver(u)
                \/ \E t \in Tasks :
                      /\ handlers'[t] # handlers[t]
                      /\ handlers'[t].user = u
                      /\ CallReturned(handlers'[t])
          /\ \A t \in Tasks :
                LET h2 == handlers'[t] IN
                (handlers[t] # h2 /\ h2.user = u /\ ~Has(h2, "remote_call")) =>
                    \/ Counters(user_limits', u) = Counters(user_limits, u)
                    \/ RolledOver(u)]_vars

\* An upload of a user at 9 documents today was rejected for its size and
\* the user still stands at 9.
C28_Witness ==
    \E t \in Tasks :
        LET h == handlers[t] IN
        /\ h.pc = "done"
        /\ h.failure = "too_big"
        /\ ~Has(h, "remote_call")
        /\ h.user \in DOMAIN user_limits
        /\ user_limits[h.user].last_reset = today
        /\ user_limits[h.user].documents_count > 0

\* C29: a handler whose indicator task ended by an error of its own while
\* the remote call was outstanding is not aborted when it stops the
\* indicator: it goes on to delete the placeholder, and a result the call
\* returned is delivered.
C29_FailedIndicatorDoesNotAbort ==
    \A t \in Tasks :
        LET h == handlers[t] IN
        (h.typing_task = "failed" /\ CallReturned(h) /\ Has(h, "cancel")) =>
            /\ h.pc # "raised"
            /\ h.pc \in Finished => Has(h, "delete_placeholder")
            /\ (h.pc \in Finished /\ h.response = "answer" /\ h.failure # "render") =>
                  \E d \in Deliveries : Has(h, d)
====
